---- MODULE Spec2Model ----
(***************************************************************************)
(* Battery charge/discharge planning by a two-phase simplex                *)
(* (ovidiu-ionescu/battery-optimisation).                                  *)
(*                                                                         *)
(* The model follows calculation() of src/src/calculation.rs: build the    *)
(* tableau (tableau_creation.rs), run Matrix::solve in Phase One, switch   *)
(* to Phase Two, run Matrix::solve again, read the solution and expand it  *)
(* into the plan (dual_simplex.rs, calculation.rs).                        *)
(*                                                                         *)
(* f64 values are modelled as exact fractions <<numerator, denominator>>   *)
(* in lowest terms.  The inputs are drawn from values for which every      *)
(* intermediate result is a dyadic fraction with a small numerator, so     *)
(* that the f64 operations of the program are exact on them                *)
(* (see ExactInF64).                                                       *)
(***************************************************************************)
EXTENDS Integers, Sequences, FiniteSets, TLC

(***************************************************************************)
(* f64 arithmetic                                                          *)
(***************************************************************************)
RECURSIVE GCD(_, _)
GCD(a, b) == IF b = 0 THEN a ELSE GCD(b, a % b)

IAbs(x) == IF x < 0 THEN -x ELSE x

\* the fraction n/d in lowest terms with a positive denominator
Rat(n, d) ==
  LET s == IF d < 0 THEN -1 ELSE 1
      g == GCD(IAbs(n), IAbs(d))
  IN  <<(s * n) \div g, (s * d) \div g>>

F(n) == <<n, 1>>
Zero == <<0, 1>>
One == <<1, 1>>

add(x, y) == IF x[2] = y[2] THEN Rat(x[1] + y[1], x[2])
             ELSE Rat(x[1] * y[2] + y[1] * x[2], x[2] * y[2])
neg(x) == <<-x[1], x[2]>>
sub(x, y) == add(x, neg(y))
mul(x, y) == IF x[1] = 0 \/ y[1] = 0 THEN Zero ELSE Rat(x[1] * y[1], x[2] * y[2])
div(x, y) == IF x[1] = 0 THEN Zero ELSE Rat(x[1] * y[2], x[2] * y[1])
lt(x, y) == x[1] * y[2] < y[1] * x[2]
le(x, y) == x[1] * y[2] <= y[1] * x[2]
gt(x, y) == lt(y, x)
ge(x, y) == le(y, x)
fmin(x, y) == IF lt(y, x) THEN y ELSE x
fabs(x) == <<IAbs(x[1]), x[2]>>

\* let tolerance = 0.0001
tolerance == <<1, 10000>>

(***************************************************************************)
(* tableau_creation.rs                                                     *)
(***************************************************************************)
\* the negate closure: every non-zero entry changes sign
negate(v) == [c \in DOMAIN v |-> IF v[c] # Zero THEN neg(v[c]) ELSE v[c]]

\* v[idx] = val; an index outside the row is an index-out-of-bounds panic,
\* which the caller records
SetAt(v, idx, val) == IF idx \in DOMAIN v THEN [v EXCEPT ![idx] = val] ELSE v

\* the values build_tableau computes before its loops
\* overflow_checks: the build has integer overflow checks (debug profile),
\* so that usize subtraction below zero panics instead of wrapping
tableau_context(data, config, overflow_checks) ==
  LET n == Len(data)
      count_vars == Cardinality({i \in 1..n : le(data[i].power, config.max_consumption)})
      count_over == n - count_vars
      num_s == 2 * count_vars + count_over + 1
      num_max_a == count_over + 1
  IN  [data |-> data, config |-> config, overflow_checks |-> overflow_checks,
       n |-> n,
       b0 |-> mul(config.battery_initial_charge, F(4)),
       b_max |-> mul(config.battery_capacity, F(4)),
       b_final |-> mul(config.battery_final_charge, F(4)),
       count_vars |-> count_vars, count_over |-> count_over,
       num_s |-> num_s, num_max_a |-> num_max_a,
       cols |-> count_vars + num_s + num_max_a + 1]

\* if d.power >= config.max_consumption, for interval i (from 0)
skipped(cx, i) == ge(cx.data[i + 1].power, cx.config.max_consumption)

\* equation for max power charge: the loop from interval i on
RECURSIVE max_power_equations(_, _, _)
max_power_equations(cx, i, st) ==
  IF i = cx.n THEN st
  ELSE IF skipped(cx, i)
  THEN max_power_equations(cx, i + 1, [st EXCEPT !.x_vs_interval_offset = @ + 1])
  ELSE LET equation ==
             [[c \in 0..(cx.cols - 1) |-> Zero]
                EXCEPT ![i - st.x_vs_interval_offset] = One,
                       ![cx.count_vars + st.line_count] = One,
                       ![cx.cols - 1] =
                          fmin(cx.config.battery_max_charge,
                               sub(cx.config.max_consumption, cx.data[i + 1].power))]
       IN  max_power_equations(cx, i + 1,
             [st EXCEPT !.result = Append(@, equation), !.line_count = @ + 1])

\* equations for the limit of the battery capacity: the loop from interval i on
RECURSIVE capacity_equations(_, _, _)
capacity_equations(cx, i, st) ==
  IF i = cx.n THEN st
  ELSE IF skipped(cx, i)
  THEN capacity_equations(cx, i + 1,
         [st EXCEPT !.x_vs_interval_offset = @ + 1,
                    !.discharge = add(@, sub(cx.data[i + 1].power,
                                             cx.config.max_consumption))])
  ELSE LET limit == sub(add(cx.b_max, st.discharge), cx.b0)
           e1 == [c \in 0..(cx.cols - 1) |->
                    IF c < i - st.x_vs_interval_offset + 1
                    THEN cx.config.battery_efficiency ELSE Zero]
           e2 == [e1 EXCEPT ![cx.count_vars + st.line_count] = One,
                            ![cx.cols - 1] = limit]
           needs_a == lt(limit, Zero)
           equation == IF needs_a THEN SetAt(negate(e2), st.a_offset, One) ELSE e2
       IN  capacity_equations(cx, i + 1,
             [st EXCEPT !.result = Append(@, equation),
                        !.line_count = @ + 1,
                        !.a_offset = IF needs_a THEN @ + 1 ELSE @,
                        !.panic = @ \/ (needs_a /\ st.a_offset > cx.cols - 1)])

\* equations for discharging, with the running sum of the intermediate
\* goal: the loop from interval i on
RECURSIVE discharge_equations(_, _, _)
discharge_equations(cx, i, st) ==
  IF i = cx.n THEN st
  ELSE IF ~skipped(cx, i) THEN discharge_equations(cx, i + 1, st)
  ELSE LET x_vs_interval_offset == st.x_vs_interval_offset + 1
           discharge == add(st.discharge,
                            sub(cx.data[i + 1].power, cx.config.max_consumption))
           limit == sub(discharge, cx.b0)
           \* i - x_vs_interval_offset + 1 in usize: below zero the
           \* subtraction panics with overflow checks and wraps to 2^64 - 1
           \* without them, and the + 1 then wraps to 0
           underflow == i < x_vs_interval_offset
           upper == IF underflow THEN 0 ELSE i - x_vs_interval_offset + 1
           has_a == ge(limit, Zero)
           e1 == [c \in 0..(cx.cols - 1) |->
                    IF c < upper THEN cx.config.battery_efficiency ELSE Zero]
           e2 == [e1 EXCEPT ![cx.count_vars + st.line_count] = neg(One),
                            ![cx.cols - 1] = limit]
           equation == IF has_a THEN SetAt(e2, st.a_offset, One) ELSE negate(e2)
           i1 == [c \in 0..(cx.cols - 1) |->
                    IF c < upper /\ has_a THEN add(st.intermediate[c], e1[c])
                    ELSE st.intermediate[c]]
           i2 == IF has_a
                 THEN [i1 EXCEPT ![cx.count_vars + st.line_count] = neg(One),
                                 ![cx.cols - 1] = add(@, limit)]
                 ELSE i1
       IN  discharge_equations(cx, i + 1,
             [st EXCEPT !.x_vs_interval_offset = x_vs_interval_offset,
                        !.discharge = discharge,
                        !.result = Append(@, equation),
                        !.line_count = @ + 1,
                        !.a_offset = IF has_a THEN @ + 1 ELSE @,
                        !.intermediate = i2,
                        !.panic = @ \/ (underflow /\ cx.overflow_checks)
                                    \/ (has_a /\ st.a_offset > cx.cols - 1)])

\* equation for the final battery value
final_equation(cx, st) ==
  LET limit == add(sub(cx.b_final, cx.b0), st.discharge)
      has_a == ge(limit, Zero)
      e1 == [c \in 0..(cx.cols - 1) |->
               IF c < cx.count_vars THEN cx.config.battery_efficiency ELSE Zero]
      i1 == [c \in 0..(cx.cols - 1) |->
               IF c < cx.count_vars /\ has_a
               THEN add(st.intermediate[c], cx.config.battery_efficiency)
               ELSE st.intermediate[c]]
      equation ==
        IF has_a
        THEN [SetAt([e1 EXCEPT ![cx.count_vars + st.line_count] = neg(One)],
                    st.a_offset, One) EXCEPT ![cx.cols - 1] = limit]
        ELSE [negate(e1) EXCEPT ![cx.count_vars + st.line_count] = One,
                                ![cx.cols - 1] = neg(limit)]
      i2 == IF has_a
            THEN [i1 EXCEPT ![cx.count_vars + st.line_count] = neg(One),
                            ![cx.cols - 1] = add(@, limit)]
            ELSE i1
  IN  [st EXCEPT !.result = Append(@, equation),
                 !.a_offset = IF has_a THEN @ + 1 ELSE @,
                 !.intermediate = i2,
                 !.panic = @ \/ (has_a /\ st.a_offset > cx.cols - 1)]

\* price, the optimization function: -price of interval i in column
\* i - x_vs_interval_offset
price_equation(cx) ==
  LET column(i) == i - Cardinality({j \in 0..i : skipped(cx, j)})
      priced(c) == {i \in 0..(cx.n - 1) : ~skipped(cx, i) /\ column(i) = c}
  IN  [c \in 0..(cx.cols - 1) |->
         IF priced(c) = {} THEN Zero
         ELSE neg(cx.data[(CHOOSE i \in priced(c) : TRUE) + 1].price)]

\* the result is a record: panic, or the tableau with the two counts
build_tableau(data, config, overflow_checks) ==
  LET cx == tableau_context(data, config, overflow_checks)
      st0 == [result |-> <<>>, line_count |-> 0,
              a_offset |-> cx.count_vars + cx.num_s,
              x_vs_interval_offset |-> 0, discharge |-> Zero,
              intermediate |-> [c \in 0..(cx.cols - 1) |-> Zero],
              panic |-> FALSE]
      s1 == max_power_equations(cx, 0, st0)
      s2 == capacity_equations(cx, 0,
              [s1 EXCEPT !.x_vs_interval_offset = 0, !.discharge = Zero])
      s3 == discharge_equations(cx, 0,
              [s2 EXCEPT !.x_vs_interval_offset = 0, !.discharge = Zero])
      s4 == final_equation(cx, s3)
      all == s4.result \o <<price_equation(cx), s4.intermediate>>
      a_offset == s4.a_offset
      \* trim the unused a columns:
      \* r[a_offset] = r[cols - 1]; r.truncate(a_offset + 1)
      trim(r) == [c \in 0..a_offset |-> IF c = a_offset THEN r[cx.cols - 1] ELSE r[c]]
      panic == s4.panic \/ a_offset > cx.cols - 1
  IN  [panic |-> panic,
       tableau |-> IF panic THEN <<>>
                   ELSE [r \in 0..(Len(all) - 1) |-> trim(all[r + 1])],
       variables |-> cx.count_vars,
       artificials |-> a_offset - cx.count_vars - cx.num_s]

(***************************************************************************)
(* dual_simplex.rs                                                         *)
(***************************************************************************)
\* Matrix::new
new(data, variables, artificials) ==
  [phase |-> "One", data |-> data, variables |-> variables, artificials |-> artificials]

NumRows(m) == Cardinality(DOMAIN m.data)
NumCols(m) == Cardinality(DOMAIN m.data[0])

get(m, row, col) == m.data[row][col]

\* find_most_positive_in_bottom_row, but Phase Two leaves out only the
\* right-hand side and scans the artificial columns too
find_most_positive_with_artificials(m) ==
  LET last_row == IF m.phase = "One" THEN m.data[NumRows(m) - 1]
                  ELSE m.data[NumRows(m) - 2]
      scanned == 0..(NumCols(m) - 2)
      positive == {c \in scanned : gt(last_row[c], Zero)}
  IN  IF positive = {} THEN [found |-> FALSE, col |-> 0]
      ELSE [found |-> TRUE,
            col |-> CHOOSE c \in positive :
                      \A c2 \in positive :
                        \/ gt(last_row[c], last_row[c2])
                        \/ (last_row[c] = last_row[c2] /\ c <= c2)]

\* the result is a record: found, col
find_most_positive_in_bottom_row(m) ==
  LET last_row == IF m.phase = "One" THEN m.data[NumRows(m) - 1]
                  ELSE m.data[NumRows(m) - 2]
      limit == IF m.phase = "One" THEN 1 ELSE m.artificials + 1
      scanned == 0..(NumCols(m) - limit - 1)
      positive == {c \in scanned : gt(last_row[c], Zero)}
  IN  IF positive = {} THEN [found |-> FALSE, col |-> 0]
      ELSE [found |-> TRUE,
            col |-> CHOOSE c \in positive :
                      \A c2 \in positive :
                        \/ gt(last_row[c], last_row[c2])
                        \/ (last_row[c] = last_row[c2] /\ c <= c2)]

\* rows that take part in the minimum-ratio test
PivotRowLimit(m) == IF m.phase = "One" THEN 2 ELSE 1

\* the result is a record: found, row, col
find_pivot(m) ==
  LET mp == find_most_positive_in_bottom_row(m)
      col == mp.col
      num_rows == NumRows(m)
      num_cols == NumCols(m)
      cand == {row \in 0..(num_rows - PivotRowLimit(m) - 1) :
                 gt(get(m, row, col), Zero) /\ ge(get(m, row, num_cols - 1), Zero)}
      ratio(row) == div(get(m, row, num_cols - 1), get(m, row, col))
  IN  IF ~mp.found \/ cand = {} THEN [found |-> FALSE, row |-> 0, col |-> 0]
      ELSE [found |-> TRUE,
            row |-> CHOOSE row \in cand :
                      \A r2 \in cand :
                        \/ lt(ratio(row), ratio(r2))
                        \/ (ratio(row) = ratio(r2) /\ row <= r2),
            col |-> col]

\* rows that a pivot rewrites
PivotNumRows(m) == IF m.phase = "One" THEN NumRows(m) ELSE NumRows(m) - 1

\* pivot, but the phase becomes Two by itself as soon as the intermediate
\* objective is within tolerance of zero
pivot_switching_phase(m, pivot_row, pivot_col) ==
  LET pivot_val == get(m, pivot_row, pivot_col)
      num_rows == PivotNumRows(m)
      prow == [c \in DOMAIN m.data[pivot_row] |-> div(m.data[pivot_row][c], pivot_val)]
      pivoted ==
        [row \in DOMAIN m.data |->
           IF row = pivot_row THEN prow
           ELSE IF row < num_rows
           THEN [c \in DOMAIN m.data[row] |->
                   sub(m.data[row][c], mul(m.data[row][pivot_col], prow[c]))]
           ELSE m.data[row]]
      residual == pivoted[NumRows(m) - 1][NumCols(m) - 1]
  IN  [m EXCEPT !.data = pivoted,
                !.phase = IF lt(fabs(residual), tolerance) THEN "Two" ELSE @]

pivot(m, pivot_row, pivot_col) ==
  LET pivot_val == get(m, pivot_row, pivot_col)
      num_rows == PivotNumRows(m)
      prow == [c \in DOMAIN m.data[pivot_row] |-> div(m.data[pivot_row][c], pivot_val)]
  IN  [m EXCEPT !.data =
         [row \in DOMAIN m.data |->
            IF row = pivot_row THEN prow
            ELSE IF row < num_rows
            THEN LET ratio == m.data[row][pivot_col]
                 IN  IF ratio = Zero THEN m.data[row]   \* x - 0 * y = x
                     ELSE [c \in DOMAIN m.data[row] |->
                             sub(m.data[row][c], mul(ratio, prow[c]))]
            ELSE m.data[row]]]

\* check_if_we_have_a_solution without the test of the Phase One residual
check_without_residual(m) == TRUE

check_if_we_have_a_solution(m) ==
  IF m.phase = "One"
  THEN lt(fabs(m.data[NumRows(m) - 1][NumCols(m) - 1]), tolerance)
  ELSE TRUE

get_solution(m) ==
  LET num_rows == NumRows(m)
      num_cols == NumCols(m)
      nonzero(col) == {row \in 0..num_rows-1 : get(m, row, col) # Zero}
  IN  [col \in 0..m.variables-1 |->
         IF Cardinality(nonzero(col)) = 1
         THEN get(m, CHOOSE row \in nonzero(col) : TRUE, num_cols - 1)
         ELSE Zero]

(***************************************************************************)
(* Inputs                                                                  *)
(***************************************************************************)
\* longest interval sequence
MaxLen == 2
\* for _ in 0..1000000
IterationCap == 1000000

Powers == {F(0), F(1), F(2), F(3)}
Prices == {F(-1), F(1)}

Configs ==
  [max_consumption : {F(2)},
   battery_capacity : {<<1, 2>>},
   battery_max_charge : {<<3, 2>>},
   battery_initial_charge : {F(0), <<1, 4>>, F(1)},
   battery_efficiency : {F(1), <<1, 2>>},
   battery_final_charge : {F(0), <<1, 2>>}]

\* interval i of a sequence starts at time i and ends at time i + 1
Datas ==
  UNION {[1..n -> Powers \X Prices] : n \in 1..MaxLen}

MkData(f) == [i \in 1..Len(f) |->
                [start |-> i - 1, end |-> i, power |-> f[i][1], price |-> f[i][2]]]

(***************************************************************************)
(* calculation.rs                                                          *)
(***************************************************************************)
VARIABLES data, config, matrix, pc, iterations, solve_result, solution,
          planning, result

vars == <<data, config, matrix, pc, iterations, solve_result, solution,
          planning, result>>

NoMatrix == [phase |-> "none", data |-> <<>>, variables |-> 0, artificials |-> 0]

Init ==
  /\ \E f \in Datas : data = MkData(f)
  /\ config \in Configs
  /\ matrix = NoMatrix
  /\ pc = "build_tableau"
  /\ iterations = 0
  /\ solve_result = [One |-> "none", Two |-> "none"]
  /\ solution = <<>>
  /\ planning = <<>>
  /\ result = "none"

\* let (tableau, variables, artificials) = build_tableau(data, config);
\* let mut matrix = Matrix::new(tableau, variables, artificials);
BuildTableau ==
  /\ pc = "build_tableau"
  /\ \E overflow_checks \in BOOLEAN :
       LET t == build_tableau(data, config, overflow_checks)
       IN  IF t.panic
           THEN /\ pc' = "panic"
                /\ UNCHANGED matrix
           ELSE /\ pc' = "solve"
                /\ matrix' = new(t.tableau, t.variables, t.artificials)
  /\ UNCHANGED <<data, config, iterations, solve_result, solution, planning, result>>

\* iterations of the loop of solve that find a pivot: Some(p) => self.pivot(p).
\* A pivot that leaves the matrix as it was is found again by every later
\* iteration, so that the loop repeats it until its counter is exhausted:
\* these iterations are taken in one step.
Pivot ==
  /\ pc = "solve"
  /\ iterations < IterationCap
  /\ LET p == find_pivot(matrix)
     IN  /\ p.found
         /\ matrix' = pivot(matrix, p.row, p.col)
  /\ iterations' = IF matrix' = matrix THEN IterationCap ELSE iterations + 1
  /\ UNCHANGED <<data, config, pc, solve_result, solution, planning, result>>

\* the value solve returns in the current state; the ? of calculation
\* returns an error to the caller
solve(m, iters) ==
  IF iters >= IterationCap THEN "No solution found, iterated too many times"
  ELSE IF check_if_we_have_a_solution(m) THEN "Ok"
  ELSE "No feasible solution found"

SolveReturn ==
  /\ pc = "solve"
  /\ iterations >= IterationCap \/ ~find_pivot(matrix).found
  /\ LET r == solve(matrix, iterations)
     IN  /\ solve_result' = [solve_result EXCEPT ![matrix.phase] = r]
         /\ IF r = "Ok"
            THEN /\ pc' = IF matrix.phase = "One" THEN "phase_two" ELSE "get_solution"
                 /\ UNCHANGED result
            ELSE /\ pc' = "done"
                 /\ result' = r
  /\ UNCHANGED <<data, config, matrix, iterations, solution, planning>>

\* Matrix::phase_two
phase_two(m) == [m EXCEPT !.phase = "Two"]

PhaseTwo ==
  /\ pc = "phase_two"
  /\ matrix' = phase_two(matrix)
  /\ iterations' = 0
  /\ pc' = "solve"
  /\ UNCHANGED <<data, config, solve_result, solution, planning, result>>

GetSolution ==
  /\ pc = "get_solution"
  /\ solution' = get_solution(matrix)
  /\ pc' = "plan"
  /\ UNCHANGED <<data, config, matrix, iterations, solve_result, planning, result>>

\* make_plan, but an under-load interval reports its headroom as energy
\* from the battery
make_plan_with_headroom(dat, conf, sol) ==
  [i \in 1..Len(dat) |->
     LET solution_offset ==
           Cardinality({j \in 1..(i-1) : le(dat[j].power, conf.max_consumption)})
     IN  IF le(dat[i].power, conf.max_consumption)
         THEN [start |-> dat[i].start, end |-> dat[i].end,
               energy_to_battery_wh |-> div(sol[solution_offset], F(4)),
               energy_from_battery_wh |->
                 div(sub(conf.max_consumption, dat[i].power), F(4))]
         ELSE [start |-> dat[i].start, end |-> dat[i].end,
               energy_to_battery_wh |-> Zero,
               energy_from_battery_wh |->
                 div(sub(dat[i].power, conf.max_consumption), F(4))]]

\* the plan of calculation: under the limit the battery is charged with the
\* next solution value, over the limit the excess comes from the battery
make_plan(dat, conf, sol) ==
  [i \in 1..Len(dat) |->
     LET solution_offset ==
           Cardinality({j \in 1..(i-1) : le(dat[j].power, conf.max_consumption)})
     IN  IF le(dat[i].power, conf.max_consumption)
         THEN [start |-> dat[i].start, end |-> dat[i].end,
               energy_to_battery_wh |-> div(sol[solution_offset], F(4)),
               energy_from_battery_wh |-> Zero]
         ELSE [start |-> dat[i].start, end |-> dat[i].end,
               energy_to_battery_wh |-> Zero,
               energy_from_battery_wh |->
                 div(sub(dat[i].power, conf.max_consumption), F(4))]]

MakePlan ==
  /\ pc = "plan"
  /\ planning' = make_plan(data, config, solution)
  /\ result' = "Ok"
  /\ pc' = "done"
  /\ UNCHANGED <<data, config, matrix, iterations, solve_result, solution>>

Next == BuildTableau \/ Pivot \/ SolveReturn \/ PhaseTwo \/ GetSolution \/ MakePlan

Spec == Init /\ [][Next]_vars

\* every value of the matrix is a dyadic fraction below 2^20 in size, on
\* which the f64 operations of the program are exact
RECURSIVE IsPow2(_)
IsPow2(k) == k = 1 \/ (k > 1 /\ k % 2 = 0 /\ IsPow2(k \div 2))

ExactInF64 ==
  \A r \in DOMAIN matrix.data : \A c \in DOMAIN matrix.data[r] :
    LET x == matrix.data[r][c]
    IN  IsPow2(x[2]) /\ IAbs(x[1]) < 1048576 /\ x[2] < 1048576

(***************************************************************************)
(* Vocabulary of the properties                                            *)
(***************************************************************************)
Ok == "Ok"
ErrInfeasible == "No feasible solution found"
ErrTooMany == "No solution found, iterated too many times"

\* calculation has returned Ok(planning)
OkDone == pc = "done" /\ result = Ok

Intervals == 1..Len(data)
\* under-load and over-load intervals (1-based positions in data)
UnderLoad(i) == le(data[i].power, config.max_consumption)
OverLoad(i) == gt(data[i].power, config.max_consumption)
UnderSet == {i \in Intervals : UnderLoad(i)}
OverSet == {i \in Intervals : OverLoad(i)}
\* the position of under-load interval i among the under-load intervals, from 0
UnderIndex(i) == Cardinality({j \in UnderSet : j < i})
\* min(battery_max_charge, max_consumption - power_i)
ChargeLimit(i) == fmin(config.battery_max_charge,
                       sub(config.max_consumption, data[i].power))

RECURSIVE Sum(_, _)
Sum(f, S) == IF S = {} THEN Zero
             ELSE LET k == CHOOSE k \in S : TRUE
                  IN  add(f[k], Sum(f, S \ {k}))

\* battery quantities per quarter of an hour
B0 == mul(config.battery_initial_charge, F(4))
BMax == mul(config.battery_capacity, F(4))
BFinal == mul(config.battery_final_charge, F(4))
\* what the over-load intervals up to i take from the battery
Discharge(i) == Sum([j \in Intervals |-> sub(data[j].power, config.max_consumption)],
                    {j \in OverSet : j <= i})

\* charges x (one per under-load interval) that satisfy every constraint of
\* the scheduling problem
Satisfies(x) ==
  LET charged(i) == mul(config.battery_efficiency, Sum(x, {j \in UnderSet : j <= i}))
  IN  /\ \A i \in UnderSet : ge(x[i], Zero) /\ le(x[i], ChargeLimit(i))
      /\ \A i \in UnderSet : le(charged(i), sub(add(BMax, Discharge(i)), B0))
      /\ \A i \in OverSet : ge(add(B0, charged(i)), Discharge(i))
      /\ ge(sub(add(B0, charged(Len(data))), Discharge(Len(data))), BFinal)

\* Every bound of the problem is a multiple of 1/2 for the inputs of the
\* model and the constraints are difference constraints on the running sums
\* of x, so that a feasible problem has a solution in multiples of 1/2.
ChargeGrid == {Zero, <<1, 2>>, One, <<3, 2>>}
Feasible == \E x \in [UnderSet -> ChargeGrid] : Satisfies(x)

\* the tableau as build_tableau returned it is in matrix
JustBuilt == pc = "solve" /\ matrix.phase = "One" /\ iterations = 0
\* a call of solve has just returned
JustReturned == pc \in {"phase_two", "get_solution"} \/ (pc = "done" /\ result # Ok)

(***************************************************************************)
(* Properties                                                              *)
(***************************************************************************)
\* build_tableau writes a max-power equation, and so a decision variable,
\* for interval i
HasVariable(i) == ~ge(data[i].power, config.max_consumption)
\* the column of that variable: i - x_vs_interval_offset
XColumn(i) ==
  (i - 1) - Cardinality({j \in 1..(i-1) : ge(data[j].power, config.max_consumption)})

\* C1: when calculation returns Ok the plan has the length and order of the
\* input, every interval with power <= max_consumption is charged a quarter
\* of the value of the decision variable that build_tableau created for
\* that interval, and every interval with power > max_consumption takes
\* (power - max_consumption) / 4 from the battery.
C1_PlanFollowsTableau ==
  OkDone =>
    /\ Len(planning) = Len(data)
    /\ \A i \in Intervals :
         /\ planning[i].start = data[i].start
         /\ planning[i].end = data[i].end
         /\ UnderLoad(i) =>
              /\ HasVariable(i)
              /\ planning[i].energy_to_battery_wh = div(solution[XColumn(i)], F(4))
         /\ OverLoad(i) =>
              planning[i].energy_from_battery_wh =
                div(sub(data[i].power, config.max_consumption), F(4))

\* C2: when the constraints of the problem cannot all be satisfied, the
\* Phase One solve returns the infeasibility error and calculation never
\* returns Ok with a plan.
C2_InfeasibleIsRejected ==
  ~Feasible =>
    /\ solve_result.One \in {"none", ErrInfeasible}
    /\ ~OkDone

\* C3: after both solves succeeded, the value that get_solution returns for
\* the decision variable of an under-load interval i lies between 0 and
\* min(battery_max_charge, max_consumption - power_i).
C3_SolutionWithinChargeLimit ==
  (pc \in {"plan", "done"} /\ solve_result.Two = Ok) =>
    \A i \in UnderSet :
      /\ ge(solution[UnderIndex(i)], Zero)
      /\ le(solution[UnderIndex(i)], ChargeLimit(i))

\* the battery level at the end of the planned schedule
FinalLevel ==
  sub(add(config.battery_initial_charge,
          mul(config.battery_efficiency,
              Sum([i \in Intervals |-> planning[i].energy_to_battery_wh], Intervals))),
      Sum([i \in Intervals |-> planning[i].energy_from_battery_wh], Intervals))

\* C4: the battery level at the end of a plan that calculation returns is at
\* least battery_final_charge, within tolerance.
C4_FinalChargeReached ==
  OkDone => ge(FinalLevel, sub(config.battery_final_charge, tolerance))

\* the right-hand side of the intermediate-objective row
IntermediateRhs == matrix.data[NumRows(matrix) - 1][NumCols(matrix) - 1]

\* C5: on a feasible problem the Phase One solve returns Ok below the
\* iteration cap with the intermediate-objective right-hand side within
\* 0.0001 of zero when phase_two is called, and the Phase Two solve also
\* returns below the cap.
C5_FeasibleSolvesTerminate ==
  Feasible =>
    /\ solve_result.One \in {"none", Ok}
    /\ pc = "phase_two" => lt(fabs(IntermediateRhs), tolerance)
    /\ solve_result.Two # ErrTooMany
    /\ iterations < IterationCap

\* C6: build_tableau returns one decision variable per interval with
\* power <= max_consumption, and each of these intervals has its own
\* capacity-upper-bound row x_i + s = min(battery_max_charge,
\* max_consumption - power_i), its own cumulative-capacity row and the
\* coefficient -price_i in its column of the true objective row.
C6_OneVariablePerUnderLoadInterval ==
  JustBuilt =>
    LET M == matrix.data
        nvars == matrix.variables
        rhs == NumCols(matrix) - 1
        crows == 0..(NumRows(matrix) - 3)
        limit(i) == sub(add(BMax, Discharge(i)), B0)
        sign(i) == IF lt(limit(i), Zero) THEN neg(One) ELSE One
    IN  /\ nvars = Cardinality(UnderSet)
        /\ \A i \in UnderSet :
             LET k == UnderIndex(i)
             IN  /\ \E r \in crows :
                      /\ \A c \in 0..(nvars - 1) : M[r][c] = IF c = k THEN One ELSE Zero
                      /\ \E sc \in nvars..(rhs - 1) :
                           \A c \in nvars..(rhs - 1) :
                             M[r][c] = IF c = sc THEN One ELSE Zero
                      /\ M[r][rhs] = ChargeLimit(i)
                 /\ \E r \in crows :
                      /\ \A c \in 0..(nvars - 1) :
                           M[r][c] = IF c <= k
                                     THEN mul(sign(i), config.battery_efficiency)
                                     ELSE Zero
                      /\ M[r][rhs] = mul(sign(i), limit(i))
                      /\ \E sc \in nvars..(rhs - 1) : M[r][sc] = sign(i)
                 /\ M[NumRows(matrix) - 2][k] = neg(data[i].price)

\* C7 as stated: exactly one of the two energy fields of every Plan record
\* is nonzero.
C7_ExactlyOneNonzero ==
  OkDone =>
    \A i \in Intervals :
      (planning[i].energy_to_battery_wh # Zero)
        # (planning[i].energy_from_battery_wh # Zero)

\* C7: at most one of the two energy fields of every Plan record that
\* calculation returns is nonzero; an under-load interval that is not
\* charged has both fields zero.
C7_AtMostOneNonzero ==
  OkDone =>
    \A i \in Intervals :
      \/ planning[i].energy_to_battery_wh = Zero
      \/ planning[i].energy_from_battery_wh = Zero

\* a returned plan that charges in one interval and discharges in another
C7_Witness ==
  /\ OkDone
  /\ \E i \in Intervals : planning[i].energy_to_battery_wh # Zero
  /\ \E i \in Intervals : planning[i].energy_from_battery_wh # Zero

\* C8: solve pivots at most IterationCap times and returns Ok exactly when no
\* pivot is found and the phase is Two or the intermediate right-hand side
\* is within tolerance, the infeasibility error exactly when no pivot is
\* found in Phase One with that right-hand side beyond tolerance, and the
\* excessive-iterations error exactly when the cap is reached; the Phase
\* Two solve never returns the infeasibility error.
C8_SolveOutcomes ==
  /\ iterations <= IterationCap
  /\ solve_result.Two # ErrInfeasible
  /\ JustReturned =>
       LET r == solve_result[matrix.phase]
           no_pivot == iterations < IterationCap /\ ~find_pivot(matrix).found
           within == lt(fabs(IntermediateRhs), tolerance)
       IN  /\ r \in {Ok, ErrInfeasible, ErrTooMany}
           /\ r = Ok <=> (no_pivot /\ (matrix.phase = "Two" \/ within))
           /\ r = ErrInfeasible <=> (no_pivot /\ matrix.phase = "One" /\ ~within)
           /\ r = ErrTooMany <=> iterations = IterationCap

\* a solve that ended with the excessive-iterations error
C8_Witness == pc = "done" /\ result = ErrTooMany /\ iterations = IterationCap

\* C9: a Matrix starts in Phase One, the phase changes only in a phase_two
\* call, from One to Two, and once Two it stays Two.
C9_PhaseChangesOnlyByPhaseTwo ==
  [][ /\ (pc = "build_tableau" /\ pc' = "solve") => matrix'.phase = "One"
      /\ (pc # "build_tableau" /\ matrix'.phase # matrix.phase) =>
           (pc = "phase_two" /\ matrix.phase = "One" /\ matrix'.phase = "Two")
      /\ matrix.phase = "Two" => matrix'.phase = "Two" ]_vars

\* the Phase Two solve has pivoted and returned, and the solution was read
C9_Witness == matrix.phase = "Two" /\ iterations > 0 /\ pc = "plan"

\* C10: in both phases the pivot row of find_pivot is a constraint row, the
\* earliest of the constraint rows with a positive pivot-column entry and a
\* non-negative right-hand side that attains the smallest ratio, and
\* find_pivot reports no pivot when no constraint row qualifies.
C10_PivotRowIsConstraintRow ==
  pc = "solve" =>
    LET p == find_pivot(matrix)
        mp == find_most_positive_in_bottom_row(matrix)
        rhs == NumCols(matrix) - 1
        qualifies == {row \in 0..(NumRows(matrix) - 3) :
                        /\ gt(matrix.data[row][mp.col], Zero)
                        /\ ge(matrix.data[row][rhs], Zero)}
        ratio(row) == div(matrix.data[row][rhs], matrix.data[row][mp.col])
    IN  IF ~mp.found \/ qualifies = {}
        THEN ~p.found
        ELSE /\ p.found
             /\ p.col = mp.col
             /\ p.row \in qualifies
             /\ \A r2 \in qualifies :
                  /\ le(ratio(p.row), ratio(r2))
                  /\ ratio(p.row) = ratio(r2) => p.row <= r2

\* the columns find_most_positive_in_bottom_row may return in the phase of m:
\* all but the right-hand side, in Phase Two all but the artificial columns too
ScannedColumns(m) ==
  IF m.phase = "One" THEN 0..(NumCols(m) - 2)
  ELSE 0..(NumCols(m) - m.artificials - 2)

\* the answer of find_most_positive_in_bottom_row is the earliest column of
\* the scanned ones with the largest positive coefficient in row r, and no
\* column when row r has no positive coefficient there
SelectsFromRow(m, r) ==
  LET mp == find_most_positive_in_bottom_row(m)
      positive == {c \in ScannedColumns(m) : gt(m.data[r][c], Zero)}
  IN  IF positive = {} THEN ~mp.found
      ELSE /\ mp.found
           /\ mp.col \in positive
           /\ \A c2 \in positive :
                /\ ge(m.data[r][mp.col], m.data[r][c2])
                /\ m.data[r][mp.col] = m.data[r][c2] => mp.col <= c2

\* C11 as stated: the pivot column is selected from the second row from the
\* bottom in Phase One and from the bottom row in Phase Two.
C11_ScansRowsAsStated ==
  pc = "solve" =>
    SelectsFromRow(matrix, IF matrix.phase = "One" THEN NumRows(matrix) - 2
                           ELSE NumRows(matrix) - 1)

\* C11: the pivot column is the earliest column with the largest positive
\* coefficient of the active objective row, which is the intermediate
\* objective (the bottom row) in Phase One and the true objective (the
\* second row from the bottom) in Phase Two, without the right-hand side
\* and in Phase Two without the artificial columns; there is no pivot
\* column when no scanned coefficient is positive.
C11_ScansActiveObjectiveRow ==
  pc = "solve" =>
    /\ SelectsFromRow(matrix, IF matrix.phase = "One" THEN NumRows(matrix) - 1
                              ELSE NumRows(matrix) - 2)
    /\ LET mp == find_most_positive_in_bottom_row(matrix)
       IN  (matrix.phase = "Two" /\ mp.found) =>
             mp.col < NumCols(matrix) - matrix.artificials - 1

\* a Phase Two matrix with a pivot column, whose true objective also has a
\* positive coefficient in an artificial column
C11_Witness ==
  /\ pc = "solve"
  /\ matrix.phase = "Two"
  /\ find_most_positive_in_bottom_row(matrix).found
  /\ \E a \in (NumCols(matrix) - matrix.artificials - 1)..(NumCols(matrix) - 2) :
       gt(matrix.data[NumRows(matrix) - 2][a], Zero)

\* column col of m has its only nonzero entry in row r, and that entry is 1,
\* over all rows of the tableau
UnitColumn(m, r, col) ==
  /\ m.data[r][col] = One
  /\ \A row \in DOMAIN m.data : row # r => m.data[row][col] = Zero

\* a step of the pivot loop of solve
PivotStep == pc = "solve" /\ pc' = "solve" /\ iterations' # iterations

\* C12: the column of a pivot chosen by find_pivot, which is basic on the
\* pivot row from that pivot on, has after the pivot exactly one nonzero
\* entry, equal to 1 and in the pivot row, across all rows of the tableau
\* including the true objective row and the intermediate-objective row.
C12_BasicColumnIsUnit ==
  [][ PivotStep =>
        LET p == find_pivot(matrix)
        IN  UnitColumn(matrix', p.row, p.col) ]_vars

\* the rows of m with a nonzero entry in column col
NonzeroRows(m, col) == {row \in DOMAIN m.data : m.data[row][col] # Zero}

\* C13: for each decision-variable column get_solution returns the
\* right-hand side of the row with the column's only nonzero entry when that
\* entry is 1, and 0 in every other case: no nonzero entry, several nonzero
\* entries, or a single nonzero entry that is not 1.
C13_SolutionReadsUnitColumns ==
  pc = "plan" =>
    \A col \in 0..(matrix.variables - 1) :
      LET rows == NonzeroRows(matrix, col)
      IN  IF Cardinality(rows) = 1 /\ \A r \in rows : matrix.data[r][col] = One
          THEN \A r \in rows : solution[col] = matrix.data[r][NumCols(matrix) - 1]
          ELSE solution[col] = Zero

\* the artificial columns of m
ArtificialColumns(m) == (NumCols(m) - m.artificials - 1)..(NumCols(m) - 2)

\* the constraint rows of m that carry an artificial variable
ArtificialRows(m) ==
  {r \in 0..(NumRows(m) - 3) : \E a \in ArtificialColumns(m) : m.data[r][a] # Zero}

\* C14: in the tableau that build_tableau returns the intermediate-objective
\* row is, in every column that is not artificial (decision variables,
\* slacks and the right-hand side), the sum of the constraint rows that
\* carry an artificial variable, and it is 0 in every artificial column.
C14_IntermediateIsPhaseOneCost ==
  JustBuilt =>
    LET last == NumRows(matrix) - 1
    IN  \A c \in 0..(NumCols(matrix) - 1) :
          IF c \in ArtificialColumns(matrix)
          THEN matrix.data[last][c] = Zero
          ELSE matrix.data[last][c] =
                 Sum([r \in ArtificialRows(matrix) |-> matrix.data[r][c]],
                     ArtificialRows(matrix))

\* C15: for every input the number of rows to which build_tableau gives an
\* artificial variable is at most the number of artificial columns it
\* allocated, one per over-load interval plus one, so that build_tableau
\* returns a tableau, and the artificial count it returns is the number of
\* rows of the tableau that carry an artificial variable.
C15_ArtificialsWithinAllocation ==
  pc # "build_tableau" =>
    /\ \A overflow_checks \in BOOLEAN :
         build_tableau(data, config, overflow_checks).artificials
           <= tableau_context(data, config, overflow_checks).num_max_a
    /\ JustBuilt => matrix.artificials = Cardinality(ArtificialRows(matrix))

====
